---------------------------- MODULE Spec2Model ----------------------------
(***************************************************************************)
(* Model of src/src/order.rs: the per-sticker order book                   *)
(* (StickerOrderBook), its side-aware sort key (OrderIndex) and the        *)
(* operations add_order, remove_order, next_bid_order, next_ask_order and  *)
(* match_order.                                                            *)
(*                                                                         *)
(* std::collections::BinaryHeap is modelled by its contract: a bag of      *)
(* entries, push adds one copy, pop removes and returns a greatest entry   *)
(* under Ord::cmp (any one of them when several compare Equal, since the   *)
(* choice depends on the heap's internal layout), retain keeps the entries *)
(* the predicate accepts.                                                  *)
(*                                                                         *)
(* The Order fields creator_user_id and fulfiller_user_id are opaque        *)
(* strings that no StickerOrderBook method reads; they are left out of the *)
(* Order record. sticker_id, which no method reads either, is kept: it is  *)
(* the key OrderBook.sticker_order_map files a StickerOrderBook under.     *)
(***************************************************************************)
EXTENDS Integers, FiniteSets, Sequences, Bags, TLC

VARIABLES
    order_map,        \* StickerOrderBook.order_map : id -> Order
    order_queue_ask,  \* StickerOrderBook.order_queue_ask : bag of OrderIndex
    order_queue_bid,  \* StickerOrderBook.order_queue_bid : bag of OrderIndex
    last,             \* the call that produced this state and what it returned
    cancelled,        \* history: the ids given to remove_order and not added since,
                      \* each with whether order_map held it at that call
    snap,             \* history: the book before an add_order of a fresh id,
                      \* kept while the very next call is remove_order of that id
    adds,             \* the number of add_order calls made so far
    phase,            \* "free" (any call), or "add" / "pop" in the fill-then-drain runs
    popped,           \* fill-then-drain runs: per side, the results of the pops so far
    probe             \* comparator runs: three index entries and what cmp and eq
                      \* answer on them (<<>> in the other runs)

vars == <<order_map, order_queue_ask, order_queue_bid, last, cancelled, snap,
          adds, phase, popped, probe>>

-----------------------------------------------------------------------------
(* Bounds of the model *)

MaxId == 2
MaxPrice == 2
MaxTime == 2
MaxAdds == 2

Ids == 1..MaxId
Prices == 1..MaxPrice
Times == 1..MaxTime

-----------------------------------------------------------------------------
(* Data types *)

OrderSide == {"Bid", "Ask"}

\* the values of Order.sticker_id (a String; the test helper draws a random
\* one for every order)
StickerIds == {"stickerA", "stickerB"}

\* struct Order, as handed to add_order (is_fulfilled: false, as the
\* test helper _create_test_order builds it)
Order ==
    [id : Ids, sticker_id : StickerIds, price : Prices, order_side : OrderSide,
     created_at : Times, is_fulfilled : {FALSE}]

\* struct OrderIndex
OrderIndex ==
    [id : Ids, price : Prices, timestamp : Times, order_side : OrderSide]

\* SystemTime's Ord::cmp(a, b)
time_cmp(a, b) ==
    IF a < b THEN "Less" ELSE IF a > b THEN "Greater" ELSE "Equal"

\* a comparator that ignores the side (both sides ordered like Bid)
cmp_bid_only(self, other) ==
    IF self.price < other.price THEN "Less"
    ELSE IF self.price > other.price THEN "Greater"
    ELSE time_cmp(other.timestamp, self.timestamp)

\* a comparator that ignores the side (both sides ordered like Ask)
cmp_ask_only(self, other) ==
    IF self.price < other.price THEN "Greater"
    ELSE IF self.price > other.price THEN "Less"
    ELSE time_cmp(other.timestamp, self.timestamp)

\* a comparator whose time tie-break is the wrong way round
cmp_late_first(self, other) ==
    IF self.price < other.price
    THEN (IF self.order_side = "Bid" THEN "Less" ELSE "Greater")
    ELSE IF self.price > other.price
    THEN (IF self.order_side = "Bid" THEN "Greater" ELSE "Less")
    ELSE time_cmp(self.timestamp, other.timestamp)

\* a comparator whose second branch repeats the first branch's answers
cmp_copied_branch(self, other) ==
    IF self.price < other.price
    THEN (IF self.order_side = "Bid" THEN "Less" ELSE "Greater")
    ELSE IF self.price > other.price
    THEN (IF self.order_side = "Bid" THEN "Less" ELSE "Greater")
    ELSE time_cmp(other.timestamp, self.timestamp)

\* impl Ord for OrderIndex :: cmp
cmp(self, other) ==
    IF self.price < other.price
    THEN (IF self.order_side = "Bid" THEN "Less" ELSE "Greater")
    ELSE IF self.price > other.price
    THEN (IF self.order_side = "Bid" THEN "Greater" ELSE "Less")
    ELSE time_cmp(other.timestamp, self.timestamp)

\* an equality that also compares the ids
eq_with_id(self, other) ==
    IF self.price > other.price \/ self.price < other.price
    THEN FALSE
    ELSE self.timestamp = other.timestamp /\ self.id = other.id

\* impl PartialEq for OrderIndex :: eq
eq(self, other) ==
    IF self.price > other.price \/ self.price < other.price
    THEN FALSE
    ELSE self.timestamp = other.timestamp

-----------------------------------------------------------------------------
(* BinaryHeap<OrderIndex> by contract *)

\* BinaryHeap::new()
BinaryHeapNew == EmptyBag

\* BinaryHeap::push
BinaryHeapPush(heap, item) == heap (+) SetToBag({item})

\* the entries pop may return: those no other entry is greater than
Greatest(heap) ==
    {x \in BagToSet(heap) : \A y \in BagToSet(heap) : cmp(x, y) # "Less"}

\* BinaryHeap::pop : the possible outcomes, ret = {} for None, {x} for Some(x)
BinaryHeapPop(heap) ==
    IF BagToSet(heap) = {}
    THEN {[ret |-> {}, heap |-> heap]}
    ELSE {[ret |-> {x}, heap |-> heap (-) SetToBag({x})] : x \in Greatest(heap)}

\* BinaryHeap::retain(|index| index.id != order_id)
RetainOthers(heap, order_id) ==
    [x \in {y \in BagToSet(heap) : y.id # order_id} |-> heap[x]]

\* retain with the predicate inverted
RetainSame(heap, order_id) ==
    [x \in {y \in BagToSet(heap) : y.id = order_id} |-> heap[x]]

-----------------------------------------------------------------------------
(* StickerOrderBook *)

\* HashMap::new()
EmptyMap == [i \in {} |-> 0]

\* HashMap::insert
MapInsert(m, k, v) == [i \in (DOMAIN m) \cup {k} |-> IF i = k THEN v ELSE m[i]]

\* HashMap::remove_entry
MapRemove(m, k) == [i \in (DOMAIN m) \ {k} |-> m[i]]

\* StickerOrderBook::new
new ==
    [order_map |-> EmptyMap,
     order_queue_ask |-> BinaryHeapNew,
     order_queue_bid |-> BinaryHeapNew]

\* the book of the current state
book ==
    [order_map |-> order_map,
     order_queue_ask |-> order_queue_ask,
     order_queue_bid |-> order_queue_bid]

\* the OrderIndex add_order builds from an order
new_order_index(order) ==
    [id |-> order.id, order_side |-> order.order_side, price |-> order.price,
     timestamp |-> order.created_at]

\* add_order that pushes every entry onto the bid queue
add_order_always_bid(self, order) ==
    [order_map |-> MapInsert(self.order_map, order.id, order),
     order_queue_ask |-> self.order_queue_ask,
     order_queue_bid |->
        BinaryHeapPush(self.order_queue_bid, new_order_index(order))]

\* StickerOrderBook::add_order
add_order(self, order) ==
    [order_map |-> MapInsert(self.order_map, order.id, order),
     order_queue_ask |->
        IF order.order_side = "Ask"
        THEN BinaryHeapPush(self.order_queue_ask, new_order_index(order))
        ELSE self.order_queue_ask,
     order_queue_bid |->
        IF order.order_side = "Bid"
        THEN BinaryHeapPush(self.order_queue_bid, new_order_index(order))
        ELSE self.order_queue_bid]

\* remove_order that scrubs only the bid queue
remove_order_bid_only(self, order_id) ==
    [order_map |-> MapRemove(self.order_map, order_id),
     order_queue_ask |-> self.order_queue_ask,
     order_queue_bid |-> RetainOthers(self.order_queue_bid, order_id)]

\* remove_order that scrubs the queues and forgets the map
remove_order_keep_map(self, order_id) ==
    [order_map |-> self.order_map,
     order_queue_ask |-> RetainOthers(self.order_queue_ask, order_id),
     order_queue_bid |-> RetainOthers(self.order_queue_bid, order_id)]

\* remove_order whose retain predicates are inverted
remove_order_inverted(self, order_id) ==
    [order_map |-> MapRemove(self.order_map, order_id),
     order_queue_ask |-> RetainSame(self.order_queue_ask, order_id),
     order_queue_bid |-> RetainSame(self.order_queue_bid, order_id)]

\* remove_order that removes the map entry and leaves the queues alone
remove_order_map_only(self, order_id) ==
    [order_map |-> MapRemove(self.order_map, order_id),
     order_queue_ask |-> self.order_queue_ask,
     order_queue_bid |-> self.order_queue_bid]

\* StickerOrderBook::remove_order
remove_order(self, order_id) ==
    [order_map |-> MapRemove(self.order_map, order_id),
     order_queue_ask |-> RetainOthers(self.order_queue_ask, order_id),
     order_queue_bid |-> RetainOthers(self.order_queue_bid, order_id)]

\* StickerOrderBook::next_bid_order : the possible (result, book) outcomes
next_bid_order(self) ==
    {[ret |-> r.ret, self |-> [self EXCEPT !.order_queue_bid = r.heap]] :
        r \in BinaryHeapPop(self.order_queue_bid)}

\* next_ask_order that pops the bid queue
next_ask_order_pops_bid(self) ==
    {[ret |-> r.ret, self |-> [self EXCEPT !.order_queue_bid = r.heap]] :
        r \in BinaryHeapPop(self.order_queue_bid)}

\* StickerOrderBook::next_ask_order : the possible (result, book) outcomes
next_ask_order(self) ==
    {[ret |-> r.ret, self |-> [self EXCEPT !.order_queue_ask = r.heap]] :
        r \in BinaryHeapPop(self.order_queue_ask)}

\* StickerOrderBook::match_order : the body holds two comments and no statement
match_order(self) == self

-----------------------------------------------------------------------------
(* The calls as steps *)

Store(self) ==
    /\ order_map' = self.order_map
    /\ order_queue_ask' = self.order_queue_ask
    /\ order_queue_bid' = self.order_queue_bid

\* what a call leaves in `last`: its name, its id argument (0 when it takes
\* none), the Option<OrderIndex> it returns ({} for None and for ()),
\* whether order_map held the id when the call was made, and the failure it
\* signals: always "none", since add_order, remove_order and match_order
\* return () and no method returns a Result or panics
Call(op, id, ret, present) ==
    [op |-> op, id |-> id, ret |-> ret, present |-> present, signal |-> "none"]

QueueLen == BagCardinality(order_queue_ask) + BagCardinality(order_queue_bid)

Init ==
    /\ order_map = new.order_map
    /\ order_queue_ask = new.order_queue_ask
    /\ order_queue_bid = new.order_queue_bid
    /\ last = Call("new", 0, {}, FALSE)
    /\ cancelled = {}
    /\ snap = {}
    /\ adds = 0
    /\ phase = "free"
    /\ popped = [s \in OrderSide |-> <<>>]
    /\ probe = <<>>

\* the orders the free runs hand to add_order: those of one sticker, since
\* no method reads sticker_id and the fill-then-drain runs cover the others
FreeRunOrder == {order \in Order : order.sticker_id = "stickerA"}

AddOrder ==
    /\ phase = "free"
    /\ adds < MaxAdds
    /\ adds' = adds + 1
    /\ \E order \in FreeRunOrder :
        /\ Store(add_order(book, order))
        /\ last' = Call("add_order", order.id, {}, order.id \in DOMAIN order_map)
        /\ cancelled' = {c \in cancelled : c.id # order.id}
        /\ snap' = IF order.id \in DOMAIN order_map THEN {} ELSE {book}
    /\ UNCHANGED <<phase, popped, probe>>

RemoveOrder ==
    /\ phase = "free"
    /\ \E order_id \in Ids :
        /\ Store(remove_order(book, order_id))
        /\ last' = Call("remove_order", order_id, {}, order_id \in DOMAIN order_map)
        /\ cancelled' = {c \in cancelled : c.id # order_id}
                \cup {[id |-> order_id, held |-> order_id \in DOMAIN order_map]}
        /\ snap' = IF last.op = "add_order" /\ last.id = order_id
                   THEN snap ELSE {}
    /\ UNCHANGED <<adds, phase, popped, probe>>

NextBidOrder ==
    /\ phase = "free"
    /\ \E r \in next_bid_order(book) :
        /\ Store(r.self)
        /\ last' = Call("next_bid_order", 0, r.ret, FALSE)
    /\ snap' = {}
    /\ UNCHANGED <<cancelled, adds, phase, popped, probe>>

NextAskOrder ==
    /\ phase = "free"
    /\ \E r \in next_ask_order(book) :
        /\ Store(r.self)
        /\ last' = Call("next_ask_order", 0, r.ret, FALSE)
    /\ snap' = {}
    /\ UNCHANGED <<cancelled, adds, phase, popped, probe>>

MatchOrder ==
    /\ phase = "free"
    /\ Store(match_order(book))
    /\ last' = Call("match_order", 0, {}, FALSE)
    /\ snap' = {}
    /\ UNCHANGED <<cancelled, adds, phase, popped, probe>>

Next ==
    \/ AddOrder
    \/ RemoveOrder
    \/ NextBidOrder
    \/ NextAskOrder
    \/ MatchOrder

Spec == Init /\ [][Next]_vars

-----------------------------------------------------------------------------
(* Fill-then-drain runs: orders with pairwise distinct ids are added to an  *)
(* empty book, then each side is popped until it has answered None twice;   *)
(* this is the shape of the four tests of order.rs.                         *)

SideCount(side) ==
    Cardinality({i \in DOMAIN order_map : order_map[i].order_side = side})

InitFill ==
    /\ order_map = new.order_map
    /\ order_queue_ask = new.order_queue_ask
    /\ order_queue_bid = new.order_queue_bid
    /\ last = Call("new", 0, {}, FALSE)
    /\ cancelled = {}
    /\ snap = {}
    /\ adds = 0
    /\ phase = "add"
    /\ popped = [s \in OrderSide |-> <<>>]
    /\ probe = <<>>

FillAddOrder ==
    /\ phase = "add"
    /\ \E order \in Order :
        /\ order.id \notin DOMAIN order_map
        /\ Store(add_order(book, order))
        /\ last' = Call("add_order", order.id, {}, FALSE)
    /\ adds' = adds + 1
    /\ UNCHANGED <<cancelled, snap, phase, popped, probe>>

FillNextBidOrder ==
    /\ phase \in {"add", "pop"}
    /\ Len(popped["Bid"]) <= SideCount("Bid") + 1
    /\ \E r \in next_bid_order(book) :
        /\ Store(r.self)
        /\ last' = Call("next_bid_order", 0, r.ret, FALSE)
        /\ popped' = [popped EXCEPT !["Bid"] = Append(@, r.ret)]
    /\ phase' = "pop"
    /\ UNCHANGED <<cancelled, snap, adds, probe>>

FillNextAskOrder ==
    /\ phase \in {"add", "pop"}
    /\ Len(popped["Ask"]) <= SideCount("Ask") + 1
    /\ \E r \in next_ask_order(book) :
        /\ Store(r.self)
        /\ last' = Call("next_ask_order", 0, r.ret, FALSE)
        /\ popped' = [popped EXCEPT !["Ask"] = Append(@, r.ret)]
    /\ phase' = "pop"
    /\ UNCHANGED <<cancelled, snap, adds, probe>>

NextFill ==
    \/ FillAddOrder
    \/ FillNextBidOrder
    \/ FillNextAskOrder

SpecFill == InitFill /\ [][NextFill]_vars

-----------------------------------------------------------------------------
(* Properties of the fill-then-drain runs *)

\* the orders of one side that were added (pops leave order_map alone)
Added(side) == {order_map[i] : i \in {j \in DOMAIN order_map : order_map[j].order_side = side}}

DistinctPrices(side) ==
    \A a, b \in Added(side) : a.id # b.id => a.price # b.price

\* the entries a side has returned so far, in pop order (None results dropped)
RECURSIVE Entries(_)
Entries(results) ==
    IF results = <<>> THEN <<>>
    ELSE IF Head(results) = {} THEN Entries(Tail(results))
    ELSE <<CHOOSE x \in Head(results) : TRUE>> \o Entries(Tail(results))

\* C1: ask orders with pairwise distinct ids and prices, added to an empty
\* book in any order, are returned by successive next_ask_order calls in
\* strictly increasing price.
Thm_C1_AskPriceAscending ==
    DistinctPrices("Ask") =>
        LET e == Entries(popped["Ask"]) IN
        \A i, j \in 1..Len(e) : i < j => e[i].price < e[j].price

\* two asks of different price have both been popped
Wit_C1_TwoAsksPopped ==
    /\ DistinctPrices("Ask")
    /\ Len(Entries(popped["Ask"])) >= 2

\* C2: bid orders with pairwise distinct ids and prices, added to an empty
\* book in any order, are returned by successive next_bid_order calls in
\* strictly decreasing price.
Thm_C2_BidPriceDescending ==
    DistinctPrices("Bid") =>
        LET e == Entries(popped["Bid"]) IN
        \A i, j \in 1..Len(e) : i < j => e[i].price > e[j].price

\* two bids of different price have both been popped
Wit_C2_TwoBidsPopped ==
    /\ DistinctPrices("Bid")
    /\ Len(Entries(popped["Bid"])) >= 2

\* C3: on either side, of two popped orders with the same price and different
\* created_at, the one created earlier is popped first, whatever the order
\* in which they were added.
Thm_C3_TimeTieBreak ==
    \A side \in OrderSide :
        LET e == Entries(popped[side]) IN
        \A i, j \in 1..Len(e) :
            (i < j /\ e[i].price = e[j].price /\ e[i].timestamp # e[j].timestamp)
                => e[i].timestamp < e[j].timestamp

\* two bids of equal price and different time have been popped (the side
\* whose price order is the reverse of the ask side's)
Wit_C3_TiePopped ==
    LET e == Entries(popped["Bid"]) IN
    /\ Len(e) >= 2
    /\ e[1].price = e[2].price
    /\ e[1].timestamp # e[2].timestamp

-----------------------------------------------------------------------------
(* Properties of the free runs (any interleaving of the five calls) *)

BookVars == <<order_map, order_queue_ask, order_queue_bid>>

\* the ids some queue entry carries
QueuedIds ==
    {x.id : x \in BagToSet(order_queue_ask) \cup BagToSet(order_queue_bid)}

\* C4: add_order with an id that order_map already holds is rejected and
\* mutates nothing: order_map and both queues are as before the call.
Cex_C4_DuplicateAddMutatesNothing ==
    [][(last'.op = "add_order" /\ last'.id \in DOMAIN order_map)
            => UNCHANGED BookVars]_vars

\* C5: once remove_order(id) has run and until an order with that id is added
\* again, id is absent from order_map and from both queues and no pop
\* returns it.
Thm_C5_CancelErasesPresence ==
    \A c \in cancelled :
        /\ c.id \notin DOMAIN order_map
        /\ c.id \notin QueuedIds
        /\ \A x \in last.ret : x.id # c.id

\* a pop returns an entry after an id that the book held was cancelled
Wit_C5_PopAfterCancel ==
    /\ \E c \in cancelled : c.held
    /\ last.op \in {"next_bid_order", "next_ask_order"}
    /\ last.ret # {}

\* C6: remove_order of an id that order_map does not hold signals
\* OrderNotFound to the caller.
Cex_C6_CancelAbsentSignals ==
    (last.op = "remove_order" /\ ~last.present) => last.signal = "OrderNotFound"

\* C7: remove_order of an id that order_map does not hold leaves order_map
\* and both queues as they were.
Thm_C7_CancelAbsentUnchanged ==
    [][(last'.op = "remove_order" /\ last'.id \notin DOMAIN order_map)
            => UNCHANGED BookVars]_vars

\* remove_order of an absent id has run on a book that holds entries
Wit_C7_CancelAbsentOnNonEmpty ==
    /\ last.op = "remove_order"
    /\ ~last.present
    /\ order_queue_ask # EmptyBag
    /\ order_queue_bid # EmptyBag

\* C8: add_order(o) for an id the book does not hold, immediately followed by
\* remove_order(o.id), leaves order_map and both queues as they were before
\* the two calls.
Thm_C8_AddCancelRoundTrip ==
    \A before \in snap : last.op = "remove_order" => book = before

\* the pair of calls has run on a book that was not empty
Wit_C8_RoundTripOnNonEmpty ==
    /\ snap # {}
    /\ last.op = "remove_order"
    /\ last.present
    /\ DOMAIN order_map # {}
    /\ QueueLen > 0

\* the live entries of a queue: those that index the order order_map holds
\* under their id
Live(heap) ==
    [x \in {y \in BagToSet(heap) :
                /\ y.id \in DOMAIN order_map
                /\ new_order_index(order_map[y.id]) = y} |-> heap[x]]

\* the best live entries of each side, by the comparator
best_bid == Greatest(Live(order_queue_bid))
best_ask == Greatest(Live(order_queue_ask))

\* the book is crossed: both sides hold live entries and the best bid's price
\* is not below the best ask's
Crossed == \E b \in best_bid, a \in best_ask : b.price >= a.price

\* C9: whenever match_order has returned, the book is not crossed.
Cex_C9_NoResidualCross ==
    last.op = "match_order" => ~Crossed

\* a bid b and an ask a, of different ids, that cross
CrossingPair(b, a) ==
    /\ b.order_side = "Bid"
    /\ a.order_side = "Ask"
    /\ b.id # a.id
    /\ b.price >= a.price

\* C10: on an empty book, a bid and then an ask with bid price >= ask price
\* are added; match_order then removes both orders from order_map and from
\* both queues.
Cex_C10_MatchRemovesCrossingPair ==
    [][\A b, a \in FreeRunOrder :
        (/\ CrossingPair(b, a)
         /\ book = add_order(add_order(new, b), a)
         /\ last.op = "add_order" /\ last.id = a.id
         /\ last'.op = "match_order")
        => (/\ b.id \notin DOMAIN order_map'
            /\ a.id \notin DOMAIN order_map'
            /\ order_queue_bid' = EmptyBag
            /\ order_queue_ask' = EmptyBag)]_vars

\* C11: in every state reached by add_order, remove_order, the pops and
\* match_order, every entry of the bid queue or the ask queue has an order
\* with the same id in order_map.
Thm_C11_QueueBackedByMap ==
    QueuedIds \subseteq DOMAIN order_map

\* remove_order has removed a held id and the queues still hold an entry
Wit_C11_EntriesAfterCancel ==
    /\ last.op = "remove_order"
    /\ last.present
    /\ QueueLen > 0

\* C12: a pop on an empty side returns None, and the order a pop returns is
\* gone from the book: its id is neither a key of order_map nor the id of an
\* entry of either queue.
Cex_C12_PopRemovesFromBook ==
    [][/\ (last'.op = "next_bid_order" /\ order_queue_bid = EmptyBag)
            => last'.ret = {}
       /\ (last'.op = "next_ask_order" /\ order_queue_ask = EmptyBag)
            => last'.ret = {}
       /\ (last'.op \in {"next_bid_order", "next_ask_order"})
            => \A x \in last'.ret :
                    /\ x.id \notin DOMAIN order_map'
                    /\ x.id \notin QueuedIds']_vars

-----------------------------------------------------------------------------
(* Properties of the book as one sticker's book *)

\* C13: all orders in one book's order_map carry the same sticker_id.
Cex_C13_OneStickerPerBook ==
    \A i, j \in DOMAIN order_map :
        order_map[i].sticker_id = order_map[j].sticker_id

-----------------------------------------------------------------------------
(* Comparator runs: three index entries are drawn, then cmp and eq are      *)
(* applied to them.                                                         *)

InitCmp ==
    /\ order_map = new.order_map
    /\ order_queue_ask = new.order_queue_ask
    /\ order_queue_bid = new.order_queue_bid
    /\ last = Call("new", 0, {}, FALSE)
    /\ cancelled = {}
    /\ snap = {}
    /\ adds = 0
    /\ phase = "cmp"
    /\ popped = [s \in OrderSide |-> <<>>]
    /\ \E a, b, c \in OrderIndex :
        probe = [a |-> a, b |-> b, c |-> c,
                 ab |-> {}, ba |-> {}, bc |-> {}, ac |-> {}, eq_ab |-> {}]

\* a.cmp(&b), b.cmp(&a), b.cmp(&c), a.cmp(&c)
ApplyCmp ==
    /\ phase = "cmp"
    /\ probe.ab = {}
    /\ probe' = [probe EXCEPT !.ab = {cmp(probe.a, probe.b)},
                              !.ba = {cmp(probe.b, probe.a)},
                              !.bc = {cmp(probe.b, probe.c)},
                              !.ac = {cmp(probe.a, probe.c)}]
    /\ UNCHANGED <<order_map, order_queue_ask, order_queue_bid, last, cancelled,
                   snap, adds, phase, popped>>

\* a == b
ApplyEq ==
    /\ phase = "cmp"
    /\ probe.eq_ab = {}
    /\ probe' = [probe EXCEPT !.eq_ab = {eq(probe.a, probe.b)}]
    /\ UNCHANGED <<order_map, order_queue_ask, order_queue_bid, last, cancelled,
                   snap, adds, phase, popped>>

NextCmp ==
    \/ ApplyCmp
    \/ ApplyEq

SpecCmp == InitCmp /\ [][NextCmp]_vars

Reverse(ordering) ==
    IF ordering = "Less" THEN "Greater"
    ELSE IF ordering = "Greater" THEN "Less"
    ELSE "Equal"

\* x has priority over y on their common side: the better price (higher for
\* Bid, lower for Ask), or the same price and the earlier timestamp
Better(x, y) ==
    \/ x.order_side = "Bid" /\ x.price > y.price
    \/ x.order_side = "Ask" /\ x.price < y.price
    \/ x.price = y.price /\ x.timestamp < y.timestamp

ProbeSameSide ==
    /\ probe.a.order_side = probe.b.order_side
    /\ probe.b.order_side = probe.c.order_side

\* C14: on entries a, b, c of one side, cmp(a, b) is the reverse of cmp(b, a),
\* cmp is transitive (for Greater, and for Greater-or-Equal), and cmp(a, b)
\* is Greater exactly when a has the better price for the side or the same
\* price and the earlier timestamp.
Thm_C14_CmpTotalOrder ==
    (probe.ab # {} /\ ProbeSameSide) =>
        /\ probe.ab = {Reverse(o) : o \in probe.ba}
        /\ (probe.ab = {"Greater"} /\ probe.bc = {"Greater"})
                => probe.ac = {"Greater"}
        /\ (probe.ab # {"Less"} /\ probe.bc # {"Less"})
                => probe.ac # {"Less"}
        /\ probe.ab = {"Greater"} <=> Better(probe.a, probe.b)

\* cmp has been applied to three asks a > b > c, a over b by time and b over
\* c by price
Wit_C14_AskChain ==
    /\ probe.ab = {"Greater"}
    /\ probe.bc = {"Greater"}
    /\ probe.a.order_side = "Ask"
    /\ ProbeSameSide
    /\ probe.a.price = probe.b.price
    /\ probe.b.price < probe.c.price

\* C18: eq(a, b) holds exactly when a and b have the same price and the same
\* timestamp, whatever their ids and sides, and exactly when cmp(a, b) is
\* Equal.
Thm_C18_EqIsPriceAndTime ==
    (probe.ab # {} /\ probe.eq_ab # {}) =>
        /\ probe.eq_ab = {TRUE} <=>
                (/\ probe.a.price = probe.b.price
                 /\ probe.a.timestamp = probe.b.timestamp)
        /\ probe.eq_ab = {TRUE} <=> probe.ab = {"Equal"}

\* eq and cmp have been applied to two entries of different id and side that
\* eq makes equal
Wit_C18_EqualAcrossIdAndSide ==
    /\ probe.ab # {}
    /\ probe.eq_ab = {TRUE}
    /\ probe.a.id # probe.b.id
    /\ probe.a.order_side # probe.b.order_side

-----------------------------------------------------------------------------
(* Further properties of the fill-then-drain and the free runs *)

\* the ids of the entries in a sequence
IdsOf(e) == {e[i].id : i \in 1..Len(e)}

\* C15: after n orders with pairwise distinct ids were added on a side of an
\* empty book, the first n pops on that side each return an entry, every
\* added id is returned exactly once, and the pops after the n-th return None.
Thm_C15_PopExhaustsSide ==
    \A side \in OrderSide :
        LET r == popped[side]
            n == SideCount(side)
            e == Entries(r)
        IN  /\ \A k \in 1..Len(r) : (k <= n) <=> (r[k] # {})
            /\ \A i, j \in 1..Len(e) : i # j => e[i].id # e[j].id
            /\ IdsOf(e) \subseteq {o.id : o \in Added(side)}
            /\ Len(r) >= n => IdsOf(e) = {o.id : o \in Added(side)}

\* two asks were added and the ask side was popped four times
Wit_C15_AsksDrained ==
    /\ SideCount("Ask") = 2
    /\ Len(popped["Ask"]) = 4

\* the number of queue entries, in either queue, that carry an id
EntriesOf(id) ==
    LET both == order_queue_ask (+) order_queue_bid
    IN  BagCardinality([x \in {y \in BagToSet(both) : y.id = id} |-> both[x]])

\* C16: the bid queue and the ask queue together hold at most as many
\* entries as order_map holds orders, and no id is carried by more than one
\* queue entry.
Cex_C16_QueuesBoundedByMap ==
    /\ QueueLen <= Cardinality(DOMAIN order_map)
    /\ \A id \in Ids : EntriesOf(id) <= 1

\* C19: every entry of the bid queue has side Bid and every entry of the ask
\* queue has side Ask.
Thm_C19_QueuesHomogeneous ==
    /\ \A x \in BagToSet(order_queue_bid) : x.order_side = "Bid"
    /\ \A x \in BagToSet(order_queue_ask) : x.order_side = "Ask"

\* both queues hold an entry
Wit_C19_BothQueuesFilled ==
    /\ order_queue_bid # EmptyBag
    /\ order_queue_ask # EmptyBag
    /\ last.op = "add_order"

=============================================================================
